---- MODULE Spec2Model ----
(***************************************************************************)
(* Model of the birthday/anniversary notification bot (src/main.py, the    *)
(* scheduled bot, and src/check.py, its one-shot variant with a debug      *)
(* channel): the circuit breaker, the content validator, the date matcher, *)
(* the message builder, the send path with the retrying HTTP session, and  *)
(* the run of main() from the data source to the webhook, once and daily. *)
(*                                                                         *)
(* Texts are sequences of one-character strings, so that len() and the     *)
(* substring test of the validator are computed, not assumed.              *)
(***************************************************************************)
EXTENDS Integers, Sequences, FiniteSets, TLC

(***************************************************************************)
(* Bounds of the model.                                                    *)
(***************************************************************************)
\* The clock runs from 0 to MaxTime seconds.
MaxTime == 300
\* record_failure() called directly (SpecBreaker) stops at this count.
MaxFailures == 7
\* The validator's payloads carry at most this many names per list.
MaxNames == 2
\* main() is called at most this many times.
MaxRuns == 2
\* The sheet has at most this many rows.
MaxRows == 2
\* The scheduler of main.py is followed for this many days: one more than the
\* threshold, so that a send follows a count that has reached it.
MaxDays == 6

\* The clock advances in steps of these many seconds: 149 + 150 = 299 is the
\* last second inside the cooldown, 150 + 150 = 300 the first one outside.
TickSteps == {149, 150}

(***************************************************************************)
(* Program constants.                                                      *)
(***************************************************************************)
\* CircuitBreaker.__init__(threshold=5, cooldown=300)
threshold == 5
cooldown == 300
\* validate_message_content: max_length = 500
max_length == 500
\* Retry(total=3, backoff_factor=2, status_forcelist=[500, 502, 503, 504])
retries_total == 3
status_forcelist == {500, 502, 503, 504}
\* urllib3's Retry.DEFAULT_ALLOWED_METHODS: the Retry object is built without
\* allowed_methods, so only these methods are retried on a status or a read error.
allowed_methods == {"HEAD", "GET", "PUT", "DELETE", "OPTIONS", "TRACE"}
\* requests' HTTPAdapter() default (max_retries=0), used for every URL that does
\* not start with the mounted prefix "https://".
DEFAULT_RETRIES == 0

\* every().day: the scheduler of main.py calls main() once every 24 hours.
Day == 86400

\* Python's None.
None == [type |-> "None"]
\* last_failure_time = None
NoTime == -1

(***************************************************************************)
(* Texts.                                                                  *)
(***************************************************************************)
Lower == <<"a","b","c","d","e","f","g","h","i","j","k","l","m",
           "n","o","p","q","r","s","t","u","v","w","x","y","z">>
Upper == <<"A","B","C","D","E","F","G","H","I","J","K","L","M",
           "N","O","P","Q","R","S","T","U","V","W","X","Y","Z">>

IsLower(c) == \E i \in 1..26 : Lower[i] = c
IsUpper(c) == \E i \in 1..26 : Upper[i] = c
IsCased(c) == IsLower(c) \/ IsUpper(c)
ToUpper(c) == IF IsLower(c) THEN Upper[CHOOSE i \in 1..26 : Lower[i] = c] ELSE c
ToLower(c) == IF IsUpper(c) THEN Lower[CHOOSE i \in 1..26 : Upper[i] = c] ELSE c

\* str.title(): a cased character is upper-cased when it follows an uncased one
\* (or starts the text) and lower-cased otherwise.
title(text) ==
    [i \in 1..Len(text) |->
        IF i = 1 \/ ~IsCased(text[i - 1]) THEN ToUpper(text[i]) ELSE ToLower(text[i])]

\* keyword in text
IsSubstring(keyword, text) ==
    \E i \in 1..(Len(text) - Len(keyword) + 1) :
        SubSeq(text, i, i + Len(keyword) - 1) = keyword

\* c * n
Repeat(c, n) == [i \in 1..n |-> c]

url_keywords ==
    << <<"h","t","t","p",":","/","/">>,
       <<"h","t","t","p","s",":","/","/">>,
       <<"w","w","w",".">> >>

\* def contains_url(text): any(keyword in text for keyword in [...])
contains_url(text) ==
    \E k \in 1..Len(url_keywords) : IsSubstring(url_keywords[k], text)

(***************************************************************************)
(* validate_message_content                                                *)
(***************************************************************************)
\* dict.get(key, default)
Get(d, key, default) == IF key \in DOMAIN d THEN d[key] ELSE default

\* One pass of the inner loop over block.get('elements', []): some element's
\* element.get('text', '') is longer than max_length or holds a URL keyword.
block_rejected(block) ==
    \E j \in 1..Len(Get(block, "elements", <<>>)) :
        LET text == Get(block.elements[j], "text", <<>>)
        IN  Len(text) > max_length \/ contains_url(text)

\* The blocks at which the outer loop over message.get('blocks', []) stops: a
\* block that is None (block.get raises AttributeError: a header template that
\* failed to load is appended to the blocks as None) or a rejected block.
stopping_blocks(msg) ==
    LET blocks == Get(msg, "blocks", <<>>)
    IN  { i \in 1..Len(blocks) : blocks[i] = None \/ block_rejected(blocks[i]) }

first_stop(msg) ==
    CHOOSE i \in stopping_blocks(msg) : \A k \in stopping_blocks(msg) : i <= k

\* validate_message_content(message) raises instead of returning.
validate_raises(msg) ==
    /\ msg # None
    /\ stopping_blocks(msg) # {}
    /\ msg.blocks[first_stop(msg)] = None

\* validate_message_content(message), when it returns: False for no message and
\* at the first rejected text, True after the loops.
validate_message_content(msg) ==
    IF msg = None THEN FALSE ELSE stopping_blocks(msg) = {}

(***************************************************************************)
(* prepare_message: the payload built from today's names and the templates *)
(***************************************************************************)
divider == [type |-> "divider"]
spacer == [type |-> "section", text |-> [type |-> "plain_text", text |-> <<"\n">>]]

\* {"type": "rich_text_list", "style": "bullet", "elements": [{"type":
\* "rich_text_section", "elements": [{"type": "text", "text": name}]}]}
list_entry(name) ==
    [type |-> "rich_text_list", style |-> "bullet",
     elements |-> << [type |-> "rich_text_section",
                      elements |-> << [type |-> "text", text |-> name] >>] >>]

\* main.py appends name.title(), check.py the name as it is.
shown_name(scr, name) == IF scr = "main" THEN title(name) ELSE name

\* The list without an entry for the last name.
name_list_short(scr, names) ==
    [type |-> "rich_text",
     elements |-> [k \in 1..(Len(names) - 1) |-> list_entry(shown_name(scr, names[k]))]]

\* {"type": "rich_text", "elements": []} with one entry appended per name.
name_list(scr, names) ==
    [type |-> "rich_text",
     elements |-> [k \in 1..Len(names) |-> list_entry(shown_name(scr, names[k]))]]

\* The three blocks of one group: divider, header, list.
group(scr, header, names) == << divider, header, name_list(scr, names) >>

TypeError == [type |-> "TypeError"]

\* prepare_message, from the names get_birthdays and get_anniversaries return and
\* from what parse_title, parse_birthday_header and parse_anniversary_header
\* return (None for a template that failed to load). message['blocks'] on a
\* title that is None raises TypeError.
prepare_message(scr, birthdays, anniversaries, parsed_title, birthday_header, anniversary_header) ==
    IF birthdays = <<>> /\ anniversaries = <<>> THEN None
    ELSE IF parsed_title = None THEN TypeError
    ELSE [parsed_title EXCEPT !.blocks =
            @ \o (IF birthdays # <<>> THEN group(scr, birthday_header, birthdays) ELSE <<>>)
              \o (IF anniversaries # <<>> /\ birthdays # <<>> THEN <<spacer>> ELSE <<>>)
              \o (IF anniversaries # <<>> THEN group(scr, anniversary_header, anniversaries) ELSE <<>>)]

(***************************************************************************)
(* The roster: get_data, validate_date_column, get_birthdays,              *)
(* get_anniversaries                                                       *)
(***************************************************************************)
\* pandas' NaT (a date that did not parse) and NaN (a missing value).
NaT == [type |-> "NaT"]
NaN == [kind |-> "NaN"]

\* How a call ends: with the value it returns or with the exception it raises.
Returned(value) == [kind |-> "return", value |-> value]
Raised(name) == [kind |-> "raise", exception |-> name]

\* The cells of the sheet: a text that pandas parses as a date of that month
\* and day, a text it cannot parse, an empty cell, a name.
Date(m, d) == [kind |-> "date", month |-> m, day |-> d]
Unparseable == [kind |-> "text"]
Empty == [kind |-> "empty"]
Name(text) == [kind |-> "str", value |-> text]

\* pd.to_datetime(..., errors='coerce') on one cell: invalid dates become NaT.
to_datetime(cell) ==
    IF cell.kind = "date" THEN [month |-> cell.month, day |-> cell.day] ELSE NaT

\* pd.DataFrame(data) for the list of dicts get_all_records() returns: the
\* columns are the keys of the records, and there are none without a record.
\* pd.DataFrame() is DataFrame(<<>>).
DataFrame(records) ==
    [columns |-> IF records = <<>> THEN {} ELSE DOMAIN records[1], rows |-> records]

\* get_data: the empty DataFrame when the credentials do not load or the fetch
\* raises, else the DataFrame of the sheet's records.
get_data(src, records) ==
    IF src = "ok" THEN DataFrame(records) ELSE DataFrame(<<>>)

\* validate_date_column(df, column_name): the empty Series for a missing
\* column, else the column parsed cell by cell.
validate_date_column(frame, column_name) ==
    IF column_name \notin frame.columns THEN <<>>
    ELSE [i \in 1..Len(frame.rows) |-> to_datetime(frame.rows[i][column_name])]

\* df[column_name] = series: the series is aligned on the index of the frame,
\* a row without a value in the series gets NaT.
set_column(frame, column_name, series) ==
    [columns |-> frame.columns \cup {column_name},
     rows |-> [i \in 1..Len(frame.rows) |->
                 [c \in frame.columns \cup {column_name} |->
                     IF c = column_name
                     THEN IF i \in DOMAIN series THEN series[i] ELSE NaT
                     ELSE frame.rows[i][c]]]]

Digits == <<"0", "1", "2", "3", "4", "5", "6", "7", "8", "9">>
two_digits(n) == << Digits[(n \div 10) + 1], Digits[(n % 10) + 1] >>

\* strftime('%m-%d') of a timestamp that is not NaT.
strftime(ts) == two_digits(ts.month) \o <<"-">> \o two_digits(ts.day)

\* df[column_name].dt.strftime('%m-%d') == today_month_day, for one row: the
\* NaN that strftime gives for NaT equals no text.
matches_today(row, column_name, today) ==
    row[column_name] # NaT /\ strftime(row[column_name]) = strftime(today)

\* Series.dropna().tolist()
dropna(series) ==
    LET notna(cell) == cell # NaN
        kept == SelectSeq(series, notna)
    IN  [i \in 1..Len(kept) |-> kept[i].value]

\* df.loc[mask, 'Employee Name'].dropna().tolist() after df[column_name] was
\* set: KeyError for a frame without the column 'Employee Name'.
names_today(frame, column_name, today) ==
    LET hit(row) == matches_today(row, column_name, today)
        rows == SelectSeq(frame.rows, hit)
    IN  IF "Employee Name" \notin frame.columns THEN Raised("KeyError")
        ELSE Returned(dropna([i \in 1..Len(rows) |-> rows[i]["Employee Name"]]))

\* get_birthdays(df): the frame as the call leaves it, and what it returns.
with_birthday(frame) == set_column(frame, "Birthday", validate_date_column(frame, "Birthday"))
get_birthdays(frame, today) == names_today(with_birthday(frame), "Birthday", today)

\* get_anniversaries(df), called on the frame get_birthdays has left.
with_hire_date(frame) == set_column(frame, "Hire Date", validate_date_column(frame, "Hire Date"))
get_anniversaries(frame, today) == names_today(with_hire_date(frame), "Hire Date", today)

(***************************************************************************)
(* The templates: load_json_file, parse_title, parse_*_header              *)
(***************************************************************************)
RECURSIVE replace(_, _, _)
\* str.replace(old, new)
replace(text, old, new) ==
    IF Len(text) < Len(old) THEN text
    ELSE IF SubSeq(text, 1, Len(old)) = old
    THEN new \o replace(SubSeq(text, Len(old) + 1, Len(text)), old, new)
    ELSE <<Head(text)>> \o replace(Tail(text), old, new)

DatePlaceholder == <<"{", "{", "D", "A", "T", "E", "}", "}">>

\* parse_title: None for a template that did not load, else the template with
\* {{DATE}} replaced in title['blocks'][1]['elements'][0]['text'] by the
\* formatted date of the day.
parse_title(template, date_text) ==
    IF template = None THEN None
    ELSE [template EXCEPT !.blocks =
            [@ EXCEPT ![2] =
                [@ EXCEPT !.elements =
                    [@ EXCEPT ![1] =
                        [@ EXCEPT !.text = replace(@, DatePlaceholder, date_text)]]]]]

\* parse_birthday_header / parse_anniversary_header: None for a template that
\* did not load, else the template with the chosen GIF as its image_url.
parse_header(template, gif) ==
    IF template = None THEN None
    ELSE [template EXCEPT !.accessory = [@ EXCEPT !.image_url = gif]]

(***************************************************************************)
(* CircuitBreaker                                                          *)
(***************************************************************************)
\* is_open() without the look at the time of the last failure.
is_open_result_stuck(fc, lft, t) == fc >= threshold

\* is_open() with the threshold compared by > in place of >=.
is_open_result_late(fc, lft, t) ==
    IF fc > threshold
    THEN IF lft # NoTime /\ (t - lft) < cooldown THEN TRUE ELSE FALSE
    ELSE FALSE

\* What is_open() returns for a breaker with count fc and last failure at lft,
\* called at time t.
is_open_result(fc, lft, t) ==
    IF fc >= threshold
    THEN IF lft # NoTime /\ (t - lft) < cooldown THEN TRUE ELSE FALSE
    ELSE FALSE

\* is_open() without the reset of its else branch.
is_open_count_kept(fc, lft, t) == fc

\* is_open() resetting the count after the cooldown whatever the count is.
is_open_count_eager(fc, lft, t) ==
    IF lft # NoTime /\ (t - lft) < cooldown THEN fc ELSE 0

\* failure_count after is_open(): reset to 0 in the else branch of the inner if.
is_open_count(fc, lft, t) ==
    IF fc >= threshold
    THEN IF lft # NoTime /\ (t - lft) < cooldown THEN fc ELSE 0
    ELSE fc

\* record_failure() with = 1 in place of += 1.
record_failure_count_set(fc) == 1

\* record_failure() without its second assignment.
record_failure_time_unset(t) == NoTime

\* record_failure(): self.failure_count += 1
record_failure_count(fc) == fc + 1
\* record_failure(): self.last_failure_time = datetime.now()
record_failure_time(t) == t

(***************************************************************************)
(* The retrying session (urllib3's Retry as the session is configured)     *)
(***************************************************************************)
\* Retry.is_retry(method, status_code): a status of status_forcelist is retried
\* only for a method of allowed_methods.
is_retry(method, status_code) ==
    method \in allowed_methods /\ status_code \in status_forcelist

\* Retry.increment() on a read error re-raises it for a method that is not
\* retryable; a connection error is retried whatever the method.
is_read_retry(method) == method \in allowed_methods

\* Retry.is_exhausted(): the count left after increment() is below zero.
is_exhausted(left) == left < 0

\* session.mount("https://", HTTPAdapter(max_retries=retries)): the adapter of
\* any other URL is the session's default one, which does not retry.
mounted_retries(url) == IF url = "https" THEN retries_total ELSE DEFAULT_RETRIES

\* Response.raise_for_status() raises HTTPError for a 4xx or 5xx status.
raises_for_status(status_code) == 400 <= status_code /\ status_code < 600

(***************************************************************************)
(* Sample data                                                             *)
(***************************************************************************)
Amina == <<"a","m","i","n","a">>
EvilName == <<"w","w","w",".","e","v","i","l">>
LongName == Repeat("x", max_length + 1)

GifUrl == <<"h","t","t","p","s",":","/","/","g">>
Header(text) ==
    [type |-> "section", text |-> [type |-> "mrkdwn", text |-> text],
     accessory |-> [type |-> "image", image_url |-> GifUrl]]

\* bin/title.json after parse_title: a header block and a context block whose
\* first element's text had {{DATE}} replaced.
Title(text) ==
    [blocks |-> << [type |-> "header", text |-> [type |-> "plain_text", text |-> <<"T">>]],
                   [type |-> "context", elements |-> << [type |-> "mrkdwn", text |-> text] >>] >>]

DateText == <<"J","u","n","e"," ","1","5">>
LinkText == <<"s","e","e"," ","h","t","t","p","s",":","/","/","x">>

\* The payloads the send path is driven with, by name: nothing to report, a
\* clean one, one the validator rejects, one with a link in a name, one whose
\* header template failed to load.
PayloadIds == {"none", "clean", "link_in_title", "link_in_name", "header_missing"}

payload(s, id) ==
    CASE id = "none" -> None
      [] id = "clean" ->
            prepare_message(s, <<Amina>>, <<>>, Title(DateText), Header(<<"H">>), Header(<<"H">>))
      [] id = "link_in_title" ->
            prepare_message(s, <<Amina>>, <<Amina>>, Title(LinkText), Header(<<"H">>), Header(<<"H">>))
      [] id = "link_in_name" ->
            prepare_message(s, <<EvilName>>, <<>>, Title(DateText), Header(<<"H">>), Header(<<"H">>))
      [] id = "header_missing" ->
            prepare_message(s, <<>>, <<Amina>>, Title(DateText), Header(<<"H">>), None)

\* validate_message_content on a payload: "AttributeError" when it raises, else
\* what it returns.
validate(m) ==
    IF validate_raises(m) THEN "AttributeError"
    ELSE IF validate_message_content(m) THEN "True" ELSE "False"

\* The payloads of a script and what the validator does with each, by name.
payloads_of(s) ==
    [none |-> payload(s, "none"), clean |-> payload(s, "clean"),
     link_in_title |-> payload(s, "link_in_title"),
     link_in_name |-> payload(s, "link_in_name"),
     header_missing |-> payload(s, "header_missing")]
validation_of(s) ==
    [none |-> validate(payload(s, "none")), clean |-> validate(payload(s, "clean")),
     link_in_title |-> validate(payload(s, "link_in_title")),
     link_in_name |-> validate(payload(s, "link_in_name")),
     header_missing |-> validate(payload(s, "header_missing"))]
payloads == [main |-> payloads_of("main"), check |-> payloads_of("check")]
validation == [main |-> validation_of("main"), check |-> validation_of("check")]

\* What the webhook (or the network) answers to one HTTP attempt.
Response(status_code) == [kind |-> "response", status |-> status_code]
ConnectError == [kind |-> "ConnectError"]
ReadError == [kind |-> "ReadError"]
Statuses == {200, 304, 404, 503}
Answers == {Response(c) : c \in Statuses} \cup {ConnectError, ReadError}

\* What the calls of send_to_slack_debug (check.py) of one step do, in order:
\* requests.post returns (whatever the status) or raises a RequestException.
DebugResults == [1..2 -> {"ok", "raise"}]

(***************************************************************************)
(* State                                                                   *)
(***************************************************************************)
VARIABLES
    script,             \* "main" (src/main.py) or "check" (src/check.py)
    SLACK_WEBHOOK_URL,  \* "https", "http" (the URL's scheme) or "None" (not set)
    failure_count,      \* circuit_breaker.failure_count
    last_failure_time,  \* circuit_breaker.last_failure_time, NoTime for None
    now,                \* datetime.now(), in seconds
    pc,                 \* "idle", "post" (inside session.post), "crashed"
    message,            \* the argument of the current or last send_message, by name
                        \* (in a run of main() the argument is prepared)
    retries,            \* what is left of Retry.total inside session.post
    answers,            \* the answers to the HTTP attempts of this send, in order
    outcome,            \* how the last send_message ended
    debug_calls,        \* requests to the debug webhook made by this send
    failures_recorded,  \* record_failure() calls made by this send
    fc_gate,            \* failure_count after the is_open() gate of this send
    fc0, lft0, t0,      \* failure_count, last_failure_time and now at the last call
                        \* of send_message or of is_open
    ret,                \* what is_open() returned, when it was the last direct call
    streak, streak0,    \* record_failure() calls since the count was last 0, now
                        \* and at the last direct call of is_open
    open_seen,          \* is_open() has returned True since the last failure
    candidate,          \* the validator's input: what prepare_message is given
    checked,            \* what validate_message_content did with it
    runs,               \* calls of main() so far
    posts,              \* calls of session.post made by this run
    source,             \* what the data source did in this run
    data,               \* what get_all_records() returned
    df,                 \* prepare_message's df
    matched,            \* prepare_message's birthdays and anniversaries
    templates,          \* what load_json_file returned for the three templates
    prepared,           \* what prepare_message returned: main's message
    exception           \* the exception that ended the run before send_message

config_vars == << script, SLACK_WEBHOOK_URL >>
breaker_vars == << failure_count, last_failure_time >>
send_vars == << pc, message, retries, answers, outcome, debug_calls, failures_recorded, fc_gate >>
call_vars == << fc0, lft0, t0 >>
direct_vars == << ret, streak, streak0, open_seen >>
validator_vars == << candidate, checked >>
run_vars == << runs, posts, source, data, df, matched, templates, prepared, exception >>

vars == << config_vars, breaker_vars, now, send_vars, call_vars, direct_vars, validator_vars,
           run_vars >>

\* A local that has no value yet.
NotYet == [type |-> "-"]
NoTemplates == [title |-> NotYet, birthday_header |-> NotYet, anniversary_header |-> NotYet]

\* What prepare_message is given on a day with one birthday and sound templates.
DefaultCandidate ==
    [birthdays |-> <<Amina>>, anniversaries |-> <<>>,
     title_text |-> DateText, birthday_header |-> Header(<<"H">>)]

\* The module level of the script has run: circuit_breaker = CircuitBreaker().
Started ==
    /\ script \in {"main", "check"}
    /\ SLACK_WEBHOOK_URL \in {"https", "http", "None"}
    /\ failure_count = 0
    /\ last_failure_time = NoTime
    /\ now = 0
    /\ pc = "idle"
    /\ message = "none"
    /\ retries = 0
    /\ answers = <<>>
    /\ outcome = "NoSend"
    /\ debug_calls = 0
    /\ failures_recorded = 0
    /\ fc_gate = 0
    /\ fc0 = 0 /\ lft0 = NoTime /\ t0 = 0
    /\ ret = "-"
    /\ streak = 0 /\ streak0 = 0
    /\ open_seen = FALSE
    /\ checked = "-"
    /\ runs = 0 /\ posts = 0
    /\ source = "-"
    /\ matched = NotYet
    /\ templates = NoTemplates
    /\ prepared = NotYet
    /\ exception = "-"

Init == Started /\ candidate = DefaultCandidate /\ data = NotYet /\ df = NotYet

\* Time passes.
Tick ==
    /\ pc # "crashed"
    /\ \E d \in TickSteps : now + d <= MaxTime /\ now' = now + d
    /\ ret' = "-"
    /\ UNCHANGED << config_vars, breaker_vars, send_vars, call_vars,
                    streak, streak0, open_seen, validator_vars, run_vars >>

(***************************************************************************)
(* send_message                                                            *)
(***************************************************************************)
\* How a step of send_message ends: the outcome, the breaker's fields, the
\* debug requests and record_failure() calls it made, and where control is.
End(o, fc, lft, dc, rec, p) ==
    [outcome |-> o, failure_count |-> fc, last_failure_time |-> lft,
     debug_calls |-> dc, failures_recorded |-> rec, pc |-> p]

\* An exception nothing catches leaves send_message (and main).
Uncaught(fc, dc) == End("Raised", fc, last_failure_time, dc, 0, "crashed")

\* except requests.exceptions.RequestException: log, (check.py: the debug
\* request k of this step,) circuit_breaker.record_failure().
on_request_exception(dbg, k, fc, dc) ==
    IF script = "main"
    THEN End("Failed(network_error)", record_failure_count(fc), record_failure_time(now),
             dc, 1, "idle")
    ELSE IF dbg[k] = "ok"
         THEN End("Failed(network_error)", record_failure_count(fc), record_failure_time(now),
                  dc + 1, 1, "idle")
         ELSE Uncaught(fc, dc + 1)

\* The HTTPError handler going back into session.post after the failure.
on_http_error_resend(dbg, fc, dc) ==
    End("Failed(http_error)", record_failure_count(fc), record_failure_time(now),
        dc, 1, "post")

\* except requests.exceptions.HTTPError: log, (check.py: a debug request,)
\* circuit_breaker.record_failure().
on_http_error(dbg, fc, dc) ==
    IF script = "main"
    THEN End("Failed(http_error)", record_failure_count(fc), record_failure_time(now),
             dc, 1, "idle")
    ELSE IF dbg[1] = "ok"
         THEN End("Failed(http_error)", record_failure_count(fc), record_failure_time(now),
                  dc + 1, 1, "idle")
         ELSE Uncaught(fc, dc + 1)

\* The rest of the try block after raise_for_status() returned: log, (check.py:
\* a debug request, whose RequestException the second except clause catches,)
\* circuit_breaker.failure_count = 0.
on_success(dbg, fc, dc) ==
    IF script = "main"
    THEN End("Sent", 0, last_failure_time, dc, 0, "idle")
    ELSE IF dbg[1] = "ok"
         THEN End("Sent", 0, last_failure_time, dc + 1, 0, "idle")
         ELSE on_request_exception(dbg, 2, fc, dc + 1)

\* The gates of send_message for a closed breaker with count fc, up to the call
\* of session.post: "post" stands for the call being made. absent says that the
\* payload is None, verdict what validate_message_content does with it.
gates_on(absent, verdict, dbg, fc) ==
    IF script = "check" /\ absent
    THEN \* check.py: if not message: log, debug request, return
         IF dbg[1] = "ok"
         THEN End("Skipped(nothing_to_report)", fc, last_failure_time, 1, 0, "idle")
         ELSE Uncaught(fc, 1)
    ELSE IF absent
    THEN \* main.py: message is falsy, the else branch logs
         End("Skipped(nothing_to_report)", fc, last_failure_time, 0, 0, "idle")
    ELSE IF verdict = "AttributeError"
    THEN Uncaught(fc, 0)
    ELSE IF verdict = "False"
    THEN IF script = "main"
         THEN End("Skipped(validation_failed)", fc, last_failure_time, 0, 0, "idle")
         ELSE \* check.py: a debug request inside validate_message_content and
              \* one in the else branch of send_message
              IF dbg[1] = "raise" THEN Uncaught(fc, 1)
              ELSE IF dbg[2] = "raise" THEN Uncaught(fc, 2)
              ELSE End("Skipped(validation_failed)", fc, last_failure_time, 2, 0, "idle")
    ELSE IF SLACK_WEBHOOK_URL = "None"
    THEN \* session.post(url=None) raises MissingSchema, a RequestException,
         \* before any request is made
         on_request_exception(dbg, 1, fc, 0)
    ELSE End("Pending", fc, last_failure_time, 0, 0, "post")

\* The gates for a payload given by name.
gates(m, dbg, fc) ==
    gates_on(payloads[script][m] = None, validation[script][m], dbg, fc)

\* send_message(message), up to its return or to the call of session.post.
send_message_step_on(absent, verdict, dbg) ==
    LET fc == is_open_count(failure_count, last_failure_time, now)
    IN  IF is_open_result(failure_count, last_failure_time, now)
        THEN End("Skipped(circuit_open)", fc, last_failure_time, 0, 0, "idle")
        ELSE gates_on(absent, verdict, dbg, fc)

send_message_step(m, dbg) ==
    send_message_step_on(payloads[script][m] = None, validation[script][m], dbg)

Finish(e) ==
    /\ outcome' = e.outcome
    /\ failure_count' = e.failure_count
    /\ last_failure_time' = e.last_failure_time
    /\ debug_calls' = e.debug_calls
    /\ failures_recorded' = e.failures_recorded
    /\ pc' = e.pc

send_message(m, dbg) ==
    /\ pc = "idle"
    /\ message' = m
    /\ fc0' = failure_count /\ lft0' = last_failure_time /\ t0' = now
    /\ fc_gate' = is_open_count(failure_count, last_failure_time, now)
    /\ answers' = <<>>
    /\ LET e == send_message_step(m, dbg)
       IN  /\ Finish(e)
           /\ retries' = IF e.pc = "post" THEN mounted_retries(SLACK_WEBHOOK_URL) ELSE 0
    /\ UNCHANGED << config_vars, now, direct_vars, validator_vars, run_vars >>

\* One HTTP attempt of session.post(url=SLACK_WEBHOOK_URL, json=message) and what
\* follows it: the next attempt, or the rest of send_message.
\* "retry" stands for another attempt with one retry less.
after_attempt(answer, dbg) ==
    IF answer.kind = "response"
    THEN IF is_retry("POST", answer.status)
         THEN IF is_exhausted(retries - 1)
              THEN \* MaxRetryError, raised as requests' RetryError
                   on_request_exception(dbg, 1, failure_count, debug_calls)
              ELSE End("Pending", failure_count, last_failure_time, debug_calls, 0, "retry")
         ELSE IF raises_for_status(answer.status)
              THEN on_http_error(dbg, failure_count, debug_calls)
              ELSE on_success(dbg, failure_count, debug_calls)
    ELSE IF answer.kind = "ConnectError" \/ is_read_retry("POST")
    THEN IF is_exhausted(retries - 1)
         THEN \* MaxRetryError, raised as requests' ConnectionError
              on_request_exception(dbg, 1, failure_count, debug_calls)
         ELSE End("Pending", failure_count, last_failure_time, debug_calls, 0, "retry")
    ELSE \* a read error of a POST is raised at once
         on_request_exception(dbg, 1, failure_count, debug_calls)

http_attempt(answer, dbg) ==
    /\ pc = "post"
    /\ answers' = Append(answers, answer)
    /\ LET e == after_attempt(answer, dbg)
       IN  IF e.pc = "retry"
           THEN /\ retries' = retries - 1
                /\ UNCHANGED << outcome, failure_count, last_failure_time, debug_calls,
                                failures_recorded, pc >>
           ELSE /\ retries' = 0
                /\ Finish(e)
    /\ UNCHANGED << config_vars, now, message, fc_gate, call_vars, direct_vars,
                    validator_vars, run_vars >>

SendMessage == \E m \in PayloadIds, dbg \in DebugResults : send_message(m, dbg)
HttpAttempt == \E answer \in Answers, dbg \in DebugResults : http_attempt(answer, dbg)

Next == Tick \/ SendMessage \/ HttpAttempt

Spec == Init /\ [][Next]_vars

(***************************************************************************)
(* The CircuitBreaker class called directly                                *)
(***************************************************************************)
\* circuit_breaker.is_open()
is_open ==
    /\ pc = "idle"
    /\ ret' = IF is_open_result(failure_count, last_failure_time, now) THEN "True" ELSE "False"
    /\ failure_count' = is_open_count(failure_count, last_failure_time, now)
    /\ fc0' = failure_count /\ lft0' = last_failure_time /\ t0' = now
    /\ streak0' = streak
    /\ streak' = IF is_open_count(failure_count, last_failure_time, now) = failure_count
                 THEN streak ELSE 0
    /\ open_seen' = (open_seen \/ is_open_result(failure_count, last_failure_time, now))
    /\ UNCHANGED << config_vars, last_failure_time, now, send_vars, validator_vars,
                    run_vars >>

\* circuit_breaker.record_failure()
record_failure ==
    /\ pc = "idle"
    /\ failure_count < MaxFailures
    /\ failure_count' = record_failure_count(failure_count)
    /\ last_failure_time' = record_failure_time(now)
    /\ streak' = streak + 1
    /\ open_seen' = FALSE
    /\ ret' = "-"
    /\ UNCHANGED << config_vars, now, send_vars, call_vars, streak0, validator_vars,
                    run_vars >>

\* circuit_breaker.failure_count = 0  # Reset on success
reset_on_success ==
    /\ pc = "idle"
    /\ failure_count' = 0
    /\ streak' = 0
    /\ open_seen' = FALSE
    /\ ret' = "-"
    /\ UNCHANGED << config_vars, last_failure_time, now, send_vars, call_vars, streak0,
                    validator_vars, run_vars >>

NextBreaker == Tick \/ is_open \/ record_failure \/ reset_on_success

SpecBreaker == Init /\ [][NextBreaker]_vars

(***************************************************************************)
(* The validator applied to the payloads prepare_message builds            *)
(***************************************************************************)
RECURSIVE lists(_, _)
\* The lists of at most n elements of S.
lists(S, n) ==
    IF n = 0 THEN {<<>>}
    ELSE lists(S, n - 1) \cup { Append(l, x) : l \in lists(S, n - 1), x \in S }

CandidateNames == {Amina, EvilName, LongName}
Candidates ==
    [birthdays : lists(CandidateNames, MaxNames),
     anniversaries : {<<>>, <<Amina>>, <<EvilName>>},
     title_text : {DateText, LinkText, Repeat("y", max_length)},
     birthday_header : {Header(<<"H">>), Header(<<"w","w","w",".","h">>)}]

\* The payload prepare_message builds for a candidate.
built(c) ==
    prepare_message(script, c.birthdays, c.anniversaries, Title(c.title_text),
                    c.birthday_header, Header(<<"H">>))

InitValidate ==
    /\ Started /\ SLACK_WEBHOOK_URL = "https" /\ candidate \in Candidates
    /\ data = NotYet /\ df = NotYet

\* validate_message_content(prepare_message())
validate_candidate ==
    /\ checked = "-"
    /\ checked' = validate(built(candidate))
    /\ UNCHANGED << config_vars, breaker_vars, now, send_vars, call_vars, direct_vars,
                    candidate, run_vars >>

NextValidate == validate_candidate

SpecValidate == InitValidate /\ [][NextValidate]_vars

(***************************************************************************)
(* The run: main() = prepare_message() then send_message(message)          *)
(***************************************************************************)
\* The day of the run, and a day that reads the same with month and day swapped.
Today == [month |-> 1, day |-> 11]
OtherDay == [month |-> 11, day |-> 1]

\* The name in row i of the sheet.
employee(i) == IF i = 1 THEN Amina ELSE <<"e", Digits[i + 1]>>

AllColumns == {"Employee Name", "Birthday", "Hire Date"}

\* Row i of a sheet with the columns of header.
row(header, i, birthday, hire_date) ==
    [c \in header |->
        CASE c = "Employee Name" -> Name(employee(i))
          [] c = "Birthday" -> birthday
          [] c = "Hire Date" -> hire_date]

RECURSIVE records(_, _, _)
\* What get_all_records() can return: at most n rows over the columns of
\* header, their date cells drawn from cells.
records(header, cells, n) ==
    IF n = 0 THEN {<<>>}
    ELSE LET shorter == records(header, cells, n - 1)
         IN  shorter \cup
             { Append(r, row(header, n, b, h)) :
                 r \in {x \in shorter : Len(x) = n - 1}, b \in cells, h \in cells }

\* The sheets of a run: every column present, each date today's or unparseable.
RunSheets == records(AllColumns, {Date(Today.month, Today.day), Unparseable}, MaxRows)

\* What the data source does: it answers, creds.json is missing
\* (FileNotFoundError), the credentials fail to load otherwise, the fetch raises.
Sources == {"ok", "no_credentials", "bad_credentials", "fetch_error"}

\* The templates as load_json_file returns them: bin/title.json with its
\* placeholder, a header, or None for a file that is missing or malformed.
TitleTemplate == Title(DatePlaceholder)
HeaderTemplate == Header(<<"H">>)
\* random.choice(BIRTHDAY_GIFS) if BIRTHDAY_GIFS else ""
Gifs == {GifUrl, <<>>}

\* A template is loaded only when prepare_message gets to it: the title when
\* there is a name, each header when its list has one.
TemplateSets(birthdays, anniversaries) ==
    [title : IF birthdays # <<>> \/ anniversaries # <<>>
             THEN {TitleTemplate, None} ELSE {NotYet},
     birthday_header : IF birthdays # <<>> THEN {HeaderTemplate, None} ELSE {NotYet},
     anniversary_header : IF anniversaries # <<>> THEN {HeaderTemplate, None} ELSE {NotYet}]

\* The GIFs chosen for a header that is loaded.
GifChoices(names) == IF names # <<>> THEN Gifs ELSE {<<>>}


\* main() is called: a new run starts, a day after the last one in main.py.
main_call ==
    /\ pc = "idle"
    /\ runs' = runs + 1
    /\ now' = IF script = "main" THEN now + Day ELSE now
    /\ pc' = "get_data"
    /\ posts' = 0
    /\ source' = "-"
    /\ data' = NotYet
    /\ df' = NotYet
    /\ matched' = NotYet
    /\ templates' = NoTemplates
    /\ prepared' = NotYet
    /\ exception' = "-"
    /\ outcome' = "NoSend"
    /\ answers' = <<>>
    /\ retries' = 0
    /\ debug_calls' = 0
    /\ failures_recorded' = 0
    /\ fc_gate' = failure_count
    /\ fc0' = failure_count /\ lft0' = last_failure_time /\ t0' = now'
    /\ UNCHANGED << config_vars, breaker_vars, message, direct_vars, validator_vars >>

\* The scheduler's run_pending() (main.py, once a day) or the script itself
\* (check.py, once) calls main().
Main ==
    /\ runs < MaxRuns
    /\ script = "check" => runs = 0
    /\ main_call

\* df = get_data(SPREADSHEET_NAME): load_credentials and the fetch. check.py
\* posts to the debug webhook in the handlers of 'except Exception'.
get_data_call(src, records_read, dbg) ==
    /\ pc = "get_data"
    /\ source' = src
    /\ data' = IF src = "ok" THEN records_read ELSE NotYet
    /\ IF script = "check" /\ src \in {"bad_credentials", "fetch_error"}
       THEN /\ debug_calls' = debug_calls + 1
            /\ IF dbg = "raise"
               THEN /\ pc' = "crashed"
                    /\ exception' = "RequestException"
                    /\ df' = df
               ELSE /\ pc' = "get_names"
                    /\ exception' = exception
                    /\ df' = get_data(src, records_read)
       ELSE /\ debug_calls' = debug_calls
            /\ pc' = "get_names"
            /\ exception' = exception
            /\ df' = get_data(src, records_read)
    /\ UNCHANGED << config_vars, breaker_vars, now, message, retries, answers, outcome,
                    failures_recorded, fc_gate, call_vars, direct_vars, validator_vars,
                    runs, posts, matched, templates, prepared >>

GetData ==
    \E src \in Sources, dbg \in {"ok", "raise"} :
        \E records_read \in (IF src = "ok" THEN RunSheets ELSE {<<>>}) :
            get_data_call(src, records_read, dbg)

\* birthdays = get_birthdays(df); anniversaries = get_anniversaries(df). The
\* KeyError of df.loc[..., 'Employee Name'] is caught nowhere.
get_names ==
    LET birthdays == get_birthdays(df, Today)
        anniversaries == get_anniversaries(with_birthday(df), Today)
    IN  IF birthdays.kind = "raise"
        THEN /\ matched' = birthdays
             /\ df' = with_birthday(df)
             /\ pc' = "crashed"
             /\ exception' = birthdays.exception
        ELSE /\ matched' = [kind |-> "return", birthdays |-> birthdays.value,
                            anniversaries |-> anniversaries.value]
             /\ df' = with_hire_date(with_birthday(df))
             /\ pc' = "build"
             /\ exception' = exception

GetNames ==
    /\ pc = "get_names"
    /\ get_names
    /\ UNCHANGED << config_vars, breaker_vars, now, message, retries, answers, outcome,
                    debug_calls, failures_recorded, fc_gate, call_vars, direct_vars,
                    validator_vars, runs, posts, source, data, templates, prepared >>

\* The rest of prepare_message: the templates are loaded when there is a name,
\* and message['blocks'] raises TypeError on a title that is None. df and data
\* are gone when prepare_message returns.
build_message(loaded, birthday_gif, anniversary_gif) ==
    /\ pc = "build"
    /\ templates' = loaded
    /\ LET m == prepare_message(script, matched.birthdays, matched.anniversaries,
                                parse_title(loaded.title, DateText),
                                parse_header(loaded.birthday_header, birthday_gif),
                                parse_header(loaded.anniversary_header, anniversary_gif))
       IN  /\ prepared' = m
           /\ pc' = IF m = TypeError THEN "crashed" ELSE "prepared"
           /\ exception' = IF m = TypeError THEN "TypeError" ELSE exception
    /\ data' = NotYet
    /\ df' = NotYet
    /\ UNCHANGED << config_vars, breaker_vars, now, message, retries, answers, outcome,
                    debug_calls, failures_recorded, fc_gate, call_vars, direct_vars,
                    validator_vars, runs, posts, source, matched >>

BuildMessage ==
    /\ pc = "build"
    /\ \E loaded \in TemplateSets(matched.birthdays, matched.anniversaries),
          birthday_gif \in GifChoices(matched.birthdays),
          anniversary_gif \in GifChoices(matched.anniversaries) :
            build_message(loaded, birthday_gif, anniversary_gif)

\* send_message(message) on what prepare_message returned.
send_prepared(dbg) ==
    /\ pc = "prepared"
    /\ fc0' = failure_count /\ lft0' = last_failure_time /\ t0' = now
    /\ fc_gate' = is_open_count(failure_count, last_failure_time, now)
    /\ answers' = <<>>
    /\ LET e == send_message_step_on(prepared = None, validate(prepared), dbg)
       IN  /\ Finish(e)
           /\ retries' = IF e.pc = "post" THEN mounted_retries(SLACK_WEBHOOK_URL) ELSE 0
    /\ posts' = IF /\ ~is_open_result(failure_count, last_failure_time, now)
                   /\ prepared # None
                   /\ validate(prepared) = "True"
                THEN posts + 1 ELSE posts
    /\ UNCHANGED << config_vars, now, message, direct_vars, validator_vars,
                    runs, source, data, df, matched, templates, prepared, exception >>

SendPrepared == \E dbg \in DebugResults : send_prepared(dbg)

NextRun == Main \/ GetData \/ GetNames \/ BuildMessage \/ SendPrepared \/ HttpAttempt

SpecRun == Init /\ [][NextRun]_vars

(***************************************************************************)
(* The scheduler of main.py followed over the days                         *)
(***************************************************************************)
\* main.py with its webhook configured.
InitDaily == Init /\ script = "main" /\ SLACK_WEBHOOK_URL = "https"

\* while True: run_pending(); time.sleep(1) with main repeated every().day
\* .at('08:00', 'Asia/Amman'): main() is called once every 24 hours, for as
\* long as no call has raised.
RunPending ==
    /\ script = "main"
    /\ runs < MaxDays
    /\ main_call

NextDaily == RunPending \/ GetData \/ GetNames \/ BuildMessage \/ SendPrepared \/ HttpAttempt

SpecDaily == InitDaily /\ [][NextDaily]_vars

(***************************************************************************)
(* The date matcher applied to the sheets get_all_records() can return     *)
(***************************************************************************)
Cells == {Date(Today.month, Today.day), Date(OtherDay.month, OtherDay.day), Unparseable, Empty}

\* The sheets with or without each of the three columns.
RosterSheets ==
    UNION { records(AllColumns \ missing, Cells, MaxRows) :
              missing \in {{}, {"Birthday"}, {"Hire Date"}, {"Employee Name"}} }

InitRoster ==
    /\ Started
    /\ SLACK_WEBHOOK_URL = "https"
    /\ candidate = DefaultCandidate
    /\ data \in RosterSheets
    /\ df = DataFrame(data)

\* get_birthdays(df) and get_anniversaries(df) on the DataFrame of a sheet.
MatchRoster ==
    /\ pc = "idle"
    /\ matched = NotYet
    /\ get_names
    /\ UNCHANGED << config_vars, breaker_vars, now, message, retries, answers, outcome,
                    debug_calls, failures_recorded, fc_gate, call_vars, direct_vars,
                    validator_vars, runs, posts, source, data, templates, prepared >>

NextRoster == MatchRoster

SpecRoster == InitRoster /\ [][NextRoster]_vars

(***************************************************************************)
(* Properties                                                              *)
(***************************************************************************)
\* The breaker was open when the last send_message (or direct is_open) was
\* called: the count had reached the threshold and fewer than cooldown seconds
\* had passed since the last failure.
open_at_call == fc0 >= threshold /\ lft0 # NoTime /\ t0 - lft0 < cooldown

\* The last answer to an HTTP attempt of this send.
last_answer == answers[Len(answers)]
is_2xx(answer) == answer.kind = "response" /\ 200 <= answer.status /\ answer.status < 300

\* The texts of a block of the payload, at whatever depth they sit: the text of
\* a header or a spacer, the texts of a context block's elements, the names of
\* a bulleted list.
block_texts(block) ==
    IF block = None THEN {}
    ELSE IF block.type = "context"
    THEN { block.elements[j].text : j \in 1..Len(block.elements) }
    ELSE IF block.type = "rich_text"
    THEN { block.elements[j].elements[1].elements[1].text : j \in 1..Len(block.elements) }
    ELSE IF "text" \in DOMAIN block THEN { block.text.text }
    ELSE {}

text_leaves(msg) ==
    IF msg = None THEN {}
    ELSE UNION { block_texts(msg.blocks[i]) : i \in 1..Len(msg.blocks) }

\* C1: whenever the breaker is open when send_message is called, the send ends
\* Skipped(circuit_open) without a single HTTP attempt (and without a debug
\* request or a change of the breaker), whatever the payload.
C1_OpenBreakerSkipsSend ==
    (outcome # "NoSend" /\ open_at_call) =>
        /\ outcome = "Skipped(circuit_open)"
        /\ answers = <<>>
        /\ debug_calls = 0
        /\ pc = "idle"
        /\ failure_count = fc0 /\ last_failure_time = lft0

\* The breaker was open in the last second of the cooldown and the send of an
\* absent payload was skipped for it.
C1_Witness ==
    /\ outcome = "Skipped(circuit_open)"
    /\ message = "none"
    /\ fc0 >= threshold
    /\ t0 - lft0 = cooldown - 1

\* C2: a send whose POST got a 2xx response ends Sent with failure_count = 0
\* and without a failure recorded.
C2_SuccessResetsCount ==
    (pc # "post" /\ answers # <<>> /\ is_2xx(last_answer)) =>
        /\ outcome = "Sent"
        /\ failure_count = 0
        /\ failures_recorded = 0

\* C3: after threshold (or more) record_failure() calls in a row, counted from a
\* count of 0, is_open() returns True whenever it is called fewer than cooldown
\* seconds after the last of them.
C3_OpenAfterThresholdFailures ==
    (ret # "-" /\ streak0 >= threshold /\ t0 - lft0 < cooldown) => ret = "True"

\* is_open() returned True in the last second of the cooldown, after exactly
\* threshold failures.
C3_Witness ==
    /\ ret = "True"
    /\ streak0 = threshold
    /\ t0 - lft0 = cooldown - 1

\* C4: a call of is_open() on a breaker whose count has reached the threshold,
\* made cooldown seconds or more after the last failure, returns False and sets
\* the count to 0; a call made earlier returns True and changes nothing; no
\* call of is_open() changes last_failure_time; the passing of time alone does
\* not change the count, and a count that has reached the threshold falls only
\* by such a call or by the reset of a successful send.
C4_ResetAtFirstCallAfterCooldown ==
    [][ /\ (is_open /\ failure_count >= threshold /\ last_failure_time # NoTime
                   /\ now - last_failure_time >= cooldown)
               => (ret' = "False" /\ failure_count' = 0)
        /\ (is_open /\ failure_count >= threshold /\ last_failure_time # NoTime
                   /\ now - last_failure_time < cooldown)
               => (ret' = "True" /\ failure_count' = failure_count)
        /\ is_open => last_failure_time' = last_failure_time
        /\ Tick => failure_count' = failure_count
        /\ (failure_count >= threshold /\ failure_count' < failure_count)
               => (reset_on_success
                   \/ (is_open /\ now - last_failure_time >= cooldown))
      ]_vars

\* is_open() returned False and reset the count exactly cooldown seconds after
\* the last failure, having returned True inside the cooldown before.
C4_Witness ==
    /\ ret = "False"
    /\ open_seen
    /\ fc0 >= threshold
    /\ t0 - lft0 = cooldown
    /\ failure_count = 0

\* C5: a send whose HTTP attempts were all answered 503 ends Failed(http_error)
\* with failure_count one above what it was when the POST was issued.
C5_Persistent503CountsOnce ==
    (pc # "post" /\ answers # <<>> /\ \A i \in 1..Len(answers) : answers[i] = Response(503)) =>
        /\ outcome = "Failed(http_error)"
        /\ failure_count = fc_gate + 1

\* C6: a send that issued the POST and did not end with a 2xx response called
\* record_failure() exactly once (the count is one above what it was, the last
\* failure is stamped during the send) and returned Failed.
C6_FailedSendRecordsOneFailure ==
    (pc # "post" /\ answers # <<>> /\ ~is_2xx(last_answer)) =>
        /\ outcome \in {"Failed(http_error)", "Failed(network_error)"}
        /\ failures_recorded = 1
        /\ failure_count = fc_gate + 1
        /\ t0 <= last_failure_time /\ last_failure_time <= now

\* C7: a send makes at most 3 HTTP attempts, and is inside session.post after an
\* attempt (another attempt follows) only when that attempt was answered by a
\* response with a status of 500, 502, 503 or 504.
C7_AtMostThreeAttempts ==
    /\ Len(answers) <= 3
    /\ (pc = "post" /\ answers # <<>>) =>
           (last_answer.kind = "response" /\ last_answer.status \in status_forcelist)

\* C8: the validator returns False for every payload with a text, at any depth,
\* that holds "http://", "https://" or "www.".
C8_LinkAnywhereRejected ==
    (checked # "-" /\ \E text \in text_leaves(built(candidate)) : contains_url(text))
        => checked = "False"

\* C9: the validator returns False for every payload with a text, at any depth,
\* of more than 500 characters, and True for a payload all of whose texts are at
\* most 500 characters long and free of the prohibited substrings.
C9_LongTextAnywhereRejected ==
    checked # "-" =>
        /\ (\E text \in text_leaves(built(candidate)) : Len(text) > max_length)
               => checked = "False"
        /\ (built(candidate) # None
            /\ \A text \in text_leaves(built(candidate)) :
                   Len(text) <= max_length /\ ~contains_url(text))
               => checked = "True"

\* C10: with the breaker closed, a send of an absent payload ends
\* Skipped(nothing_to_report) without a network call: no HTTP attempt and no
\* request to the debug webhook.
C10_AbsentPayloadNoNetwork ==
    (outcome # "NoSend" /\ message = "none" /\ ~open_at_call) =>
        /\ outcome = "Skipped(nothing_to_report)"
        /\ answers = <<>>
        /\ debug_calls = 0
\* The outcomes of a send whose call of session.post has ended.
post_ended == {"Sent", "Failed(http_error)", "Failed(network_error)"}

\* C11: with the breaker closed, a send of a present payload that the validator
\* rejects ends Skipped(validation_failed) without an HTTP attempt, without a
\* rise of failure_count and with last_failure_time as it was.
C11_RejectedPayloadNoFailure ==
    (/\ outcome # "NoSend" /\ ~open_at_call
     /\ payloads[script][message] # None
     /\ validation[script][message] = "False") =>
        /\ outcome = "Skipped(validation_failed)"
        /\ answers = <<>>
        /\ failure_count <= fc0
        /\ last_failure_time = lft0

\* C12: a call of is_open() never changes last_failure_time; it leaves
\* failure_count alone when it returns True and when the count is below the
\* threshold; when it changes the count, it sets it to 0, the count had reached
\* the threshold and cooldown seconds or more had passed since the last failure.
C12_IsOpenOnlyResets ==
    [][ is_open =>
          /\ last_failure_time' = last_failure_time
          /\ (ret' = "True") => (failure_count' = failure_count)
          /\ (failure_count < threshold) => (failure_count' = failure_count)
          /\ (failure_count' # failure_count) =>
                /\ failure_count' = 0
                /\ failure_count >= threshold
                /\ last_failure_time # NoTime
                /\ now - last_failure_time >= cooldown
      ]_vars

\* is_open() reset a count above the threshold after the cooldown and left the
\* time of the last failure in place.
C12_Witness ==
    /\ ret = "False"
    /\ fc0 > threshold
    /\ failure_count = 0
    /\ last_failure_time = lft0 /\ lft0 # NoTime
    /\ t0 - lft0 >= cooldown

\* C13 as stated: failure_count and last_failure_time change only in a step
\* that ends a call of session.post (a POST that succeeded or failed).
C13_BreakerChangesOnlyAfterPost ==
    [][ (failure_count' # failure_count \/ last_failure_time' # last_failure_time)
            => outcome' \in post_ended
      ]_vars

\* C13, amended: the passing of time leaves the breaker alone; a step that ends
\* a call of session.post is a step of send_message (inside session.post, or at
\* its call when the URL is not set); any other step leaves last_failure_time
\* alone and changes failure_count only to 0, at the call of send_message, when
\* the count had reached the threshold and the cooldown had elapsed (the reset
\* of the is_open() gate, made whether or not a POST follows).
C13_BreakerChangesInSendOnly ==
    [][ /\ Tick => (failure_count' = failure_count /\ last_failure_time' = last_failure_time)
        /\ (outcome' \in post_ended /\ outcome' # outcome) =>
               (pc = "post" \/ (pc = "idle" /\ SLACK_WEBHOOK_URL = "None"))
        /\ (outcome' \notin post_ended) =>
               /\ last_failure_time' = last_failure_time
               /\ (failure_count' # failure_count) =>
                     /\ failure_count' = 0
                     /\ pc = "idle" /\ answers' = <<>>
                     /\ failure_count >= threshold
                     /\ last_failure_time # NoTime
                     /\ now - last_failure_time >= cooldown
      ]_vars

\* A send of an absent payload, made after the cooldown on a breaker whose count
\* had reached the threshold, reset the count without an HTTP attempt.
C13_Witness ==
    /\ outcome = "Skipped(nothing_to_report)"
    /\ answers = <<>>
    /\ fc0 >= threshold
    /\ failure_count = 0
    /\ last_failure_time = lft0
\* C17: with the webhook URL not set, a send makes no HTTP attempt and records
\* no failure on the breaker (the run is a no-op).
C17_MissingUrlRecordsNoFailure ==
    (SLACK_WEBHOOK_URL = "None" /\ outcome # "NoSend") =>
        /\ answers = <<>>
        /\ failures_recorded = 0
        /\ failure_count <= fc0
        /\ last_failure_time = lft0

\* C20: with the breaker reached through send_message only, failure_count stays
\* between 0 and threshold.
C20_CountWithinThreshold ==
    0 <= failure_count /\ failure_count <= threshold

\* The count reached the threshold by a failed send.
C20_Witness ==
    /\ failure_count = threshold
    /\ failures_recorded = 1
    /\ outcome \in {"Failed(http_error)", "Failed(network_error)"}
\* C14: after a send has ended Failed, no HTTP attempt follows and the send is
\* not entered again until main() starts the next run; a run calls session.post
\* at most once.
C14_NoResendAfterFailure ==
    [][ /\ posts' <= 1
        /\ (outcome \in {"Failed(http_error)", "Failed(network_error)"}) =>
               /\ pc' \notin {"post", "prepared"}
               /\ (answers' = answers \/ (runs' = runs + 1 /\ answers' = <<>>))
      ]_vars

\* The second run posted its payload and failed as the first one had: the next
\* run was the only retry.
C14_Witness ==
    /\ runs = 2
    /\ posts = 1
    /\ failure_count = 2
    /\ outcome \in {"Failed(http_error)", "Failed(network_error)"}
    /\ pc = "idle"

\* C15: in a run whose data source failed (credentials or fetch) while every
\* request to the debug webhook went through, no exception ends the run,
\* prepare_message returns None and nothing is posted.
C15_SourceFailureIsNoData ==
    (source \notin {"-", "ok"} /\ exception # "RequestException") =>
        /\ pc # "crashed"
        /\ prepared \in {NotYet, None}
        /\ posts = 0 /\ answers = <<>>

\* C16: in a run with a name to announce and a template that did not load, no
\* exception ends the run and the payload holds no block for the missing
\* template.
C16_MissingTemplateOmitsSection ==
    (None \in {templates.title, templates.birthday_header, templates.anniversary_header}) =>
        /\ pc # "crashed"
        /\ \A i \in 1..Len(prepared.blocks) : prepared.blocks[i] # None

\* A block is the bulleted list of the names, one entry per name, in order.
is_name_list(block, names) ==
    /\ block.type = "rich_text"
    /\ Len(block.elements) = Len(names)
    /\ \A k \in 1..Len(names) :
          /\ block.elements[k].type = "rich_text_list"
          /\ block.elements[k].style = "bullet"
          /\ Len(block.elements[k].elements) = 1
          /\ Len(block.elements[k].elements[1].elements) = 1
          /\ block.elements[k].elements[1].elements[1].text = shown_name(script, names[k])

\* A block is what the header's parse function returned for the loaded template.
is_header(block, loaded) ==
    IF loaded = None THEN block = None
    ELSE block # None /\ block.type = "section" /\ block.text = loaded.text

expected_names(column_name) ==
    LET hit(r) == /\ column_name \in DOMAIN r
                  /\ r[column_name].kind = "date"
                  /\ r[column_name].month = Today.month
                  /\ r[column_name].day = Today.day
        rows == SelectSeq(data, hit)
    IN  [i \in 1..Len(rows) |-> rows[i]["Employee Name"].value]

\* C19: for every sheet, get_birthdays and get_anniversaries return (no
\* exception ends the run), and they return the names of exactly the rows whose
\* birthday, or hire date, parses to a date of today's month and day.
C19_NamesMatchToday ==
    (matched # NotYet) =>
        /\ matched.kind = "return"
        /\ matched.birthdays = expected_names("Birthday")
        /\ matched.anniversaries = expected_names("Hire Date")

\* C21: under the daily scheduler of main.py no send ends
\* Skipped(circuit_open): a send_message that finds failure_count at the
\* threshold resets the count at its is_open() gate and goes on.
C21_DailySendNeverSuppressed ==
    [][ (pc = "prepared" /\ pc' # "prepared")
            => /\ outcome' # "Skipped(circuit_open)"
               /\ failure_count >= threshold => fc_gate' = 0 ]_vars

\* The count had reached the threshold when a send was called, and the
\* message was delivered.
C21_Witness ==
    /\ pc = "idle"
    /\ fc0 >= threshold
    /\ fc_gate = 0
    /\ outcome = "Sent"

\* C22: a failure_count above 0 comes with a last_failure_time that is set;
\* when the is_open() gate of a send has reset a count that had reached the
\* threshold, the last failure was set and at least cooldown seconds old;
\* and no step clears a last_failure_time that is set.
C22_FailureTimeSetAndKept ==
    /\ [](failure_count > 0 => last_failure_time # NoTime)
    /\ []((fc0 >= threshold /\ fc_gate = 0)
            => (lft0 # NoTime /\ t0 - lft0 >= cooldown))
    /\ [][last_failure_time # NoTime => last_failure_time' # NoTime]_vars

\* The gate has reset a count at the threshold, the message was delivered,
\* and the time of the last failure is still there.
C22_Witness ==
    /\ fc0 >= threshold
    /\ fc_gate = 0
    /\ outcome = "Sent"
    /\ failure_count = 0
    /\ last_failure_time # NoTime
    /\ last_failure_time = lft0
====
